---- MODULE Spec2Model ----
(***************************************************************************)
(* Connection lifecycle of browser_use.browser.browser.Browser.            *)
(*                                                                         *)
(* One Browser object is shared by NumTasks asyncio tasks.  Each task      *)
(* calls get_playwright_browser() or close() and runs the coroutine one    *)
(* synchronous segment at a time: a task that is between two awaits keeps  *)
(* the event loop (SyncPcs) and no other task can step until it suspends.  *)
(* The outcomes of the external calls (driver start, HTTP probe, process   *)
(* spawn, attach/launch, browser close, driver stop) are chosen            *)
(* nondeterministically.                                                   *)
(***************************************************************************)
EXTENDS Integers, FiniteSets, Sequences, TLC

\* ---------------------------------------------------------------- bounds
\* tasks sharing the Browser
NumTasks == 2
\* drivers that async_playwright().start() hands out before calls that
\* would need another one are no longer made
MaxDrivers == 2

\* ------------------------------------------------------ program constants
\* `for _ in range(10)`
MaxPollAttempts == 10

Tasks == 1..NumTasks
Ids == 1..MaxDrivers

\* Values of the attributes self.playwright / self.playwright_browser:
\* None, an object (a positive id), or no attribute at all after `del`.
\* Handles are numbered in the order of their creation; a driver gets the
\* number of the handle created on it when _init stores the two, and until
\* then it is the Started driver of the call that started it.
None == 0
Deleted == -1
Started == 1

VARIABLES
    config,              \* BrowserConfig: which fields are set
    playwright,          \* self.playwright
    playwright_browser,  \* self.playwright_browser
    nDrivers,            \* drivers started
    nHandles,            \* browser handles created (ids 1..nHandles)
    closeCount,          \* per handle: PlaywrightBrowser.close() invocations
    stopCount,           \* per driver: Playwright.stop() invocations
                         \* (0, 1, or 2 for more than one)
    task                 \* per task: position and locals of the running call

vars == <<config, playwright, playwright_browser, nDrivers, nHandles,
          closeCount, stopCount, task>>

shared == <<playwright, playwright_browser, nDrivers, nHandles,
            closeCount, stopCount>>

\* ------------------------------------------------------------- task frame
\* pc: position; op: the public method running or last run; exc: the
\* exception that left the method ("none" if it returned); ret: the value
\* returned; playwright: the local `playwright` of _init; attempt: the
\* iterations of the poll loop begun.  The other fields record what the
\* running call has done so far: ran, the strategies entered; lastProbe, the
\* outcome of the probe just made; probe0, what the initial probe reported;
\* spawns, polls, sleeps, attaches, the external calls made; okAt, the poll
\* attempt that was answered with status 200; held, whether close() was
\* called with both attributes holding objects; closes, stops, the underlying
\* close/stop calls made; loop, whether __del__ found an event loop running.
\* A call that has returned keeps op, exc and ret only (and __del__ its
\* loop).
IdleRec ==
    [pc |-> "idle", op |-> "none", exc |-> "none", ret |-> None,
     playwright |-> None, attempt |-> 0, ran |-> {}, lastProbe |-> "none",
     probe0 |-> "none", spawns |-> 0, polls |-> 0, sleeps |-> 0,
     attaches |-> 0, okAt |-> 0, held |-> FALSE, closes |-> 0, stops |-> 0,
     loop |-> "none"]

\* Positions inside a synchronous segment (no await has been reached yet).
SyncPcs == {"setup_browser", "setup_cdp", "setup_wss", "setup_instance",
            "setup_standard", "probed0", "spawn", "poll", "probed",
            "final_attach"}

AttachPcs == {"attach_cdp", "attach_wss", "attach_reuse", "attach_final",
              "attach_launch"}

\* Positions suspended at an await.
AwaitPcs == AttachPcs \cup {"init_start", "sleep", "closing_browser",
                            "stopping_driver"}

InFlight(u) == task[u].pc \in SyncPcs \cup AwaitPcs

\* The event loop runs one task at a time: t may step only if no other task
\* is inside a synchronous segment.
CanRun(t) == \A u \in Tasks \ {t} : task[u].pc \notin SyncPcs

\* One more invocation of an external close/stop that was invoked n times.
Again(n) == IF n = 0 THEN 1 ELSE 2

\* Task t moves to frame r.
Step(t, r) == task' = [task EXCEPT ![t] = r]

\* The frame of a fresh call of method m.
Call(m) == [IdleRec EXCEPT !.op = m]

\* The call with frame r returns v / raises e.
Return(r, v) == [Call(r.op) EXCEPT !.pc = "done", !.ret = v]
Raise(r, e) == [Call(r.op) EXCEPT !.pc = "done", !.exc = e]

\* ------------------------------------------------------------------ Init
\* Browser.__init__: both attributes None; the configuration is any
\* combination of set/unset cdp_url, wss_url, chrome_instance_path and
\* _force_keep_browser_alive, fixed for the life of the object.
Configs ==
    [cdp_url : BOOLEAN, wss_url : BOOLEAN, chrome_instance_path : BOOLEAN,
     force_keep_browser_alive : BOOLEAN]

Init ==
    /\ config \in Configs
    /\ playwright = None
    /\ playwright_browser = None
    /\ nDrivers = 0
    /\ nHandles = 0
    /\ closeCount = [h \in Ids |-> 0]
    /\ stopCount = [d \in Ids |-> 0]
    /\ task = [t \in Tasks |-> IdleRec]

\* ------------------------------------------------- get_playwright_browser
\* NeedsInit without the test: _init runs on every call.
NeedsInitAlways(pb) == pb = None \/ pb > None

\* NeedsInit with _init run for the first connection only.
NeedsInitOnce(pb) == pb = None /\ nHandles = 0

\* `if self.playwright_browser is None`
NeedsInit(pb) == pb = None

\* Driver starts still allowed: the started drivers and the starts under way
\* stay within MaxDrivers.
MayStart == nDrivers + Cardinality({u \in Tasks : task[u].pc = "init_start"})
               < MaxDrivers

\* get_playwright_browser(), up to its first await or its return.  Reading
\* the attribute after `del` raises AttributeError.
get_playwright_browser(t) ==
    /\ task[t].pc \in {"idle", "done"}
    /\ CanRun(t)
    /\ IF playwright_browser = Deleted
       THEN Step(t, Raise(Call("get"), "AttributeError"))
       ELSE IF NeedsInit(playwright_browser)
       THEN \* _init: playwright = await async_playwright().start()
            /\ MayStart
            /\ Step(t, [Call("get") EXCEPT !.pc = "init_start"])
       ELSE Step(t, Return(Call("get"), playwright_browser))
    /\ UNCHANGED <<config, shared>>

\* DriverRefAfterStart with the driver stored in the attribute as soon as it
\* has started.
DriverRefAfterStartEager(cur, new) == new

\* _init, line 177: the started driver is bound to the local `playwright`;
\* the attribute keeps its value until the strategy has succeeded.
DriverRefAfterStart(cur, new) == cur

\* async_playwright().start() completes: a new driver, or an error that
\* leaves _init.
init_driver_started(t) ==
    /\ task[t].pc = "init_start"
    /\ CanRun(t)
    /\ \E ok \in BOOLEAN :
         IF ok
         THEN /\ nDrivers' = nDrivers + 1
              /\ playwright' = DriverRefAfterStart(playwright, nHandles + 1)
              /\ Step(t, [task[t] EXCEPT !.pc = "setup_browser",
                                         !.playwright = Started])
         ELSE /\ UNCHANGED <<nDrivers, playwright>>
              /\ Step(t, Raise(task[t], "DriverStartError"))
    /\ UNCHANGED <<config, playwright_browser, nHandles, closeCount, stopCount>>

\* SetupBrowserStrategy with the first two tests in the other order.
SetupBrowserStrategyWssFirst(c) ==
    IF c.wss_url THEN "wss"
    ELSE IF c.cdp_url THEN "cdp"
    ELSE IF c.chrome_instance_path THEN "instance"
    ELSE "standard"

\* _setup_browser: the if/elif chain over the configuration.
SetupBrowserStrategy(c) ==
    IF c.cdp_url THEN "cdp"
    ELSE IF c.wss_url THEN "wss"
    ELSE IF c.chrome_instance_path THEN "instance"
    ELSE "standard"

\* StrategyPc with the direct attaches routed through the probe-and-launch
\* strategy.
StrategyPcProbing(s) ==
    CASE s = "standard" -> "setup_standard"
      [] OTHER -> "setup_instance"

\* _setup_browser, lines 286-293: the method each branch calls.
StrategyPc(s) ==
    CASE s = "cdp" -> "setup_cdp"
      [] s = "wss" -> "setup_wss"
      [] s = "instance" -> "setup_instance"
      [] OTHER -> "setup_standard"

setup_browser(t) ==
    /\ task[t].pc = "setup_browser"
    /\ CanRun(t)
    /\ Step(t, [task[t] EXCEPT !.pc = StrategyPc(SetupBrowserStrategy(config))])
    /\ UNCHANGED <<config, shared>>

\* _setup_cdp up to `await playwright.chromium.connect_over_cdp(cdp_url)`.
setup_cdp(t) ==
    /\ task[t].pc = "setup_cdp"
    /\ CanRun(t)
    /\ IF ~config.cdp_url
       THEN Step(t, Raise(task[t], "ValueError"))
       ELSE Step(t, [task[t] EXCEPT !.pc = "attach_cdp",
                                    !.ran = @ \cup {"cdp"},
                                    !.attaches = @ + 1])
    /\ UNCHANGED <<config, shared>>

\* _setup_wss up to `await playwright.chromium.connect(wss_url)`.
setup_wss(t) ==
    /\ task[t].pc = "setup_wss"
    /\ CanRun(t)
    /\ IF ~config.wss_url
       THEN Step(t, Raise(task[t], "ValueError"))
       ELSE Step(t, [task[t] EXCEPT !.pc = "attach_wss",
                                    !.ran = @ \cup {"wss"},
                                    !.attaches = @ + 1])
    /\ UNCHANGED <<config, shared>>

\* _setup_standard_browser up to `await playwright.chromium.launch(...)`.
setup_standard_browser(t) ==
    /\ task[t].pc = "setup_standard"
    /\ CanRun(t)
    /\ Step(t, [task[t] EXCEPT !.pc = "attach_launch",
                               !.ran = @ \cup {"standard"},
                               !.attaches = @ + 1])
    /\ UNCHANGED <<config, shared>>

\* -------------------------------------------- _setup_browser_with_instance
\* requests.get('http://localhost:9222/json/version', timeout=2): a response
\* with status 200, a response with another status, requests.ConnectionError,
\* or another requests exception (a read timeout).
ProbeOutcomes == {"status_200", "status_other", "ConnectionError", "Timeout"}

\* the probe raised
ProbeRaises(o) == o \in {"ConnectionError", "Timeout"}
\* `if response.status_code == 200`
ProbeReachable(o) == o = "status_200"
\* `except requests.ConnectionError`
ProbeCaught(o) == o = "ConnectionError"

\* What the endpoint reported to a probe.
Reported(o) == IF o = "status_200" THEN "reachable" ELSE "unreachable"

\* Lines 203-211: the argument check and the initial probe.
setup_browser_with_instance(t) ==
    /\ task[t].pc = "setup_instance"
    /\ CanRun(t)
    /\ IF ~config.chrome_instance_path
       THEN Step(t, Raise(task[t], "ValueError"))
       ELSE \E o \in ProbeOutcomes :
              Step(t, [task[t] EXCEPT !.pc = "probed0",
                                      !.ran = @ \cup {"instance"},
                                      !.lastProbe = o,
                                      !.probe0 = Reported(o)])
    /\ UNCHANGED <<config, shared>>

\* AfterInitialProbe without the reuse branch: an answering endpoint is not
\* attached to, and the strategy goes on to start a process.
AfterInitialProbeAlwaysSpawns(o) ==
    IF ProbeRaises(o)
    THEN IF ProbeCaught(o) THEN "spawn" ELSE "raise"
    ELSE "spawn"

\* Lines 209-220: where the initial probe's outcome leads.
AfterInitialProbe(o) ==
    IF ProbeRaises(o)
    THEN IF ProbeCaught(o) THEN "spawn" ELSE "raise"
    ELSE IF ProbeReachable(o) THEN "attach" ELSE "spawn"

\* Lines 212-220: reuse the running instance (up to the await of
\* connect_over_cdp), go on to start one, or let the probe's exception leave.
initial_probe_result(t) ==
    /\ task[t].pc = "probed0"
    /\ CanRun(t)
    /\ LET r == [task[t] EXCEPT !.lastProbe = "none"]
           next == AfterInitialProbe(task[t].lastProbe)
       IN  IF next = "raise" THEN Step(t, Raise(r, "ProbeError"))
           ELSE IF next = "attach"
           THEN Step(t, [r EXCEPT !.pc = "attach_reuse", !.attaches = @ + 1])
           ELSE Step(t, [r EXCEPT !.pc = "spawn"])
    /\ UNCHANGED <<config, shared>>

\* subprocess.Popen([chrome_instance_path, '--remote-debugging-port=9222'] ...)
spawn(t) ==
    /\ task[t].pc = "spawn"
    /\ CanRun(t)
    /\ \E ok \in BOOLEAN :
         LET r == [task[t] EXCEPT !.spawns = @ + 1]
         IN  IF ok THEN Step(t, [r EXCEPT !.pc = "poll"])
                   ELSE Step(t, Raise(r, "LaunchFailure"))
    /\ UNCHANGED <<config, shared>>

\* `for _ in range(10)`: another iteration is due after n of them
PollAgain(n) == n < MaxPollAttempts

\* The head of the poll loop: the next iteration's probe, or the end of the
\* loop.
poll(t) ==
    /\ task[t].pc = "poll"
    /\ CanRun(t)
    /\ IF PollAgain(task[t].attempt)
       THEN \E o \in ProbeOutcomes :
              Step(t, [task[t] EXCEPT
                         !.pc = "probed",
                         !.attempt = @ + 1,
                         !.polls = @ + 1,
                         !.lastProbe = o,
                         !.okAt = IF @ = 0 /\ Reported(o) = "reachable"
                                  THEN task[t].attempt + 1 ELSE @])
       ELSE Step(t, [task[t] EXCEPT !.pc = "final_attach"])
    /\ UNCHANGED <<config, shared>>

\* AfterPollProbe without the break: the loop sleeps and probes again after
\* an answer with status 200.
AfterPollProbeNoBreak(o) ==
    IF ProbeRaises(o)
    THEN IF ProbeCaught(o) THEN "sleep" ELSE "raise"
    ELSE "sleep"

\* Lines 235-241: where a poll probe's outcome leads.
AfterPollProbe(o) ==
    IF ProbeRaises(o)
    THEN IF ProbeCaught(o) THEN "sleep" ELSE "raise"
    ELSE IF ProbeReachable(o) THEN "break" ELSE "sleep"

\* Lines 237-241: break out of the loop, sleep before the next iteration, or
\* let the probe's exception leave.
poll_result(t) ==
    /\ task[t].pc = "probed"
    /\ CanRun(t)
    /\ LET r == [task[t] EXCEPT !.lastProbe = "none"]
           next == AfterPollProbe(task[t].lastProbe)
       IN  IF next = "raise" THEN Step(t, Raise(r, "ProbeError"))
           ELSE IF next = "break" THEN Step(t, [r EXCEPT !.pc = "final_attach"])
           ELSE Step(t, [r EXCEPT !.pc = "sleep", !.sleeps = @ + 1])
    /\ UNCHANGED <<config, shared>>

\* `await asyncio.sleep(1)` completes; control returns to the loop head.
sleep_done(t) ==
    /\ task[t].pc = "sleep"
    /\ CanRun(t)
    /\ Step(t, [task[t] EXCEPT !.pc = "poll"])
    /\ UNCHANGED <<config, shared>>

\* Lines 244-248, up to the await of connect_over_cdp.  The loop is left:
\* its variable and what was recorded about it go with it.
final_attach(t) ==
    /\ task[t].pc = "final_attach"
    /\ CanRun(t)
    /\ Step(t, [task[t] EXCEPT !.pc = "attach_final", !.attaches = @ + 1,
                               !.attempt = 0, !.polls = 0, !.sleeps = 0,
                               !.okAt = 0])
    /\ UNCHANGED <<config, shared>>

\* ------------------------------------------------------- attach completes
\* The exception that leaves the strategy when its attach/launch fails:
\* the final attach of _setup_browser_with_instance (lines 250-254) turns it
\* into the RuntimeError; the others propagate it.
AttachFailure(pc) == IF pc = "attach_final" THEN "RuntimeError" ELSE "AttachError"

\* InitStore without `self.playwright = playwright`.
InitStoreHandleOnly(p, b) ==
    [playwright |-> playwright, playwright_browser |-> b]

\* _init, lines 180-181: the attributes after a successful strategy that
\* ran on the local driver p and produced handle b.
InitStore(p, b) ==
    [playwright |-> IF p = Started THEN b ELSE None, playwright_browser |-> b]

\* connect_over_cdp / connect / launch completes.  On success _init stores
\* the driver and the new handle and returns the stored handle; on failure
\* the exception leaves _setup_browser, _init and get_playwright_browser.
attach_done(t) ==
    /\ task[t].pc \in AttachPcs
    /\ CanRun(t)
    /\ \E ok \in BOOLEAN :
         IF ok
         THEN LET st == InitStore(task[t].playwright, nHandles + 1)
              IN  /\ nHandles' = nHandles + 1
                  /\ playwright' = st.playwright
                  /\ playwright_browser' = st.playwright_browser
                  /\ Step(t, Return(task[t], st.playwright_browser))
         ELSE /\ Step(t, Raise(task[t], AttachFailure(task[t].pc)))
              /\ UNCHANGED <<playwright, playwright_browser, nHandles>>
    /\ UNCHANGED <<config, nDrivers, closeCount, stopCount>>

\* ------------------------------------------------------------------ close
\* CloseReleases without the test of the flag.
CloseReleasesAlways(c) == TRUE

\* `if not self.config._force_keep_browser_alive`
CloseReleases(c) == ~c.force_keep_browser_alive

\* CloseExcept re-raising what it caught.
CloseExceptReraises(e) == e

\* `except Exception as e: logger.debug(...)`: what leaves close() when e
\* was raised inside the try block.
CloseExcept(e) == "none"

\* CloseFinally without the reset of self.playwright.
CloseFinallyKeepsDriver ==
    [playwright |-> playwright, playwright_browser |-> None]

\* `finally: self.playwright_browser = None; self.playwright = None`
CloseFinally == [playwright |-> None, playwright_browser |-> None]

\* The call ends through the except clause (when e was raised in the try
\* block) and the finally block.
Finish(t, r, e) ==
    /\ playwright' = CloseFinally.playwright
    /\ playwright_browser' = CloseFinally.playwright_browser
    /\ Step(t, IF e = "none" \/ CloseExcept(e) = "none"
               THEN Return(r, None)
               ELSE Raise(r, CloseExcept(e)))

\* Lines 305-307 up to `await self.playwright.stop()`, entered with the
\* handle attribute at pb.
DriverPart(t, r, pb) ==
    IF playwright = Deleted
    THEN /\ Finish(t, r, "AttributeError")
         /\ UNCHANGED stopCount
    ELSE IF playwright # None
    THEN /\ stopCount' = [stopCount EXCEPT ![playwright] = Again(@)]
         /\ playwright_browser' = pb
         /\ playwright' = playwright
         /\ Step(t, [r EXCEPT !.pc = "stopping_driver", !.stops = @ + 1])
    ELSE /\ Finish(t, r, "none")
         /\ UNCHANGED stopCount

\* close(), up to its first await or its return: called by task t, or begun
\* as the task that __del__ created.
close(t) ==
    /\ task[t].pc \in {"idle", "done", "scheduled"}
    /\ CanRun(t)
    /\ LET r == [Call("close") EXCEPT
                   !.held = playwright_browser > None /\ playwright > None]
       IN  IF ~CloseReleases(config)
           THEN /\ Finish(t, r, "none")
                /\ UNCHANGED <<closeCount, stopCount>>
           ELSE IF playwright_browser = Deleted
           THEN /\ Finish(t, r, "AttributeError")
                /\ UNCHANGED <<closeCount, stopCount>>
           ELSE IF playwright_browser # None
           THEN /\ closeCount' = [closeCount EXCEPT ![playwright_browser] = Again(@)]
                /\ Step(t, [r EXCEPT !.pc = "closing_browser", !.closes = @ + 1])
                /\ UNCHANGED <<playwright, playwright_browser, stopCount>>
           ELSE /\ DriverPart(t, r, playwright_browser)
                /\ UNCHANGED closeCount
    /\ UNCHANGED <<config, nDrivers, nHandles>>

\* `await self.playwright_browser.close()` completes; then
\* `del self.playwright_browser` and the driver part.
browser_closed(t) ==
    /\ task[t].pc = "closing_browser"
    /\ CanRun(t)
    /\ \E ok \in BOOLEAN :
         IF ~ok
         THEN /\ Finish(t, task[t], "CloseError")
              /\ UNCHANGED stopCount
         ELSE IF playwright_browser = Deleted
         THEN /\ Finish(t, task[t], "AttributeError")
              /\ UNCHANGED stopCount
         ELSE DriverPart(t, task[t], Deleted)
    /\ UNCHANGED <<config, nDrivers, nHandles, closeCount>>

\* `await self.playwright.stop()` completes; then `del self.playwright`
\* and the finally block.
driver_stopped(t) ==
    /\ task[t].pc = "stopping_driver"
    /\ CanRun(t)
    /\ \E ok \in BOOLEAN :
         IF ~ok THEN Finish(t, task[t], "StopError")
         ELSE IF playwright = Deleted THEN Finish(t, task[t], "AttributeError")
         ELSE Finish(t, task[t], "none")
    /\ UNCHANGED <<config, nDrivers, nHandles, closeCount, stopCount>>

\* ---------------------------------------------------------------- __del__
\* asyncio.get_running_loop(): the loop running in the calling thread, or
\* RuntimeError when there is none.
GetRunningLoop(running) == IF running THEN "loop" ELSE "RuntimeError"

\* loop.is_running(), of what get_running_loop() returned
LoopIsRunning(l) == l = "loop"

\* Lines 319-326: what __del__ does with the attributes at pb and pw.
\* "caught": an exception reached `except Exception` and was logged.
DelBranch(pb, pw, running) ==
    IF pb = Deleted \/ (pb = None /\ pw = Deleted) THEN "caught"
    ELSE IF pb = None /\ pw = None THEN "nothing"
    ELSE IF GetRunningLoop(running) = "RuntimeError" THEN "caught"
    ELSE IF LoopIsRunning(GetRunningLoop(running)) THEN "create_task"
    ELSE "run"

\* asyncio.run(self.close()): close() run to its end on a loop of its own.
run_close(t, r) ==
    /\ playwright' = CloseFinally.playwright
    /\ playwright_browser' = CloseFinally.playwright_browser
    /\ \E ok \in BOOLEAN :
         /\ closeCount' = IF CloseReleases(config) /\ playwright_browser > None
                          THEN [closeCount EXCEPT ![playwright_browser] = Again(@)]
                          ELSE closeCount
         /\ stopCount' = IF CloseReleases(config) /\ playwright > None /\ ok
                         THEN [stopCount EXCEPT ![playwright] = Again(@)]
                         ELSE stopCount
    /\ Step(t, [r EXCEPT !.pc = "done"])
    /\ UNCHANGED <<config, nDrivers, nHandles>>

\* __del__, run when nothing refers to the Browser any more: no coroutine of
\* it is in flight or scheduled.  It has no await: one step.  The task it
\* creates takes frame t.
__del__(t) ==
    /\ task[t].pc \in {"idle", "done"}
    /\ \A u \in Tasks : ~InFlight(u) /\ task[u].pc # "scheduled"
    /\ \E running \in BOOLEAN :
         LET b == DelBranch(playwright_browser, playwright, running)
             r == [Call("__del__") EXCEPT
                     !.loop = IF running THEN "running" ELSE "absent"]
         IN  IF b = "create_task"
             THEN /\ Step(t, [r EXCEPT !.pc = "scheduled"])
                  /\ UNCHANGED <<config, shared>>
             ELSE IF b = "run"
             THEN run_close(t, r)
             ELSE /\ Step(t, [r EXCEPT !.pc = "done"])
                  /\ UNCHANGED <<config, shared>>

\* ------------------------------------------------------------------- Next
Next ==
    \E t \in Tasks :
        \/ get_playwright_browser(t)
        \/ init_driver_started(t)
        \/ setup_browser(t)
        \/ setup_cdp(t)
        \/ setup_wss(t)
        \/ setup_browser_with_instance(t)
        \/ initial_probe_result(t)
        \/ spawn(t)
        \/ poll(t)
        \/ poll_result(t)
        \/ sleep_done(t)
        \/ final_attach(t)
        \/ setup_standard_browser(t)
        \/ attach_done(t)
        \/ close(t)
        \/ browser_closed(t)
        \/ driver_stopped(t)

Spec == Init /\ [][Next]_vars

\* The same with the finalizer.
NextDel ==
    \/ Next
    \/ \E t \in Tasks : __del__(t)

SpecDel == Init /\ [][NextDel]_vars

\* ================================================================ claims
\* A step of task t inside _init and the strategies: t is there and its
\* frame changes (a step changes the frame of the task that takes it only).
InitPcs == SyncPcs \cup AttachPcs \cup {"init_start", "sleep"}
InitStep(t) == task[t].pc \in InitPcs /\ task'[t] # task[t]

\* A step of task t inside close().
CloseStep(t) == close(t) \/ browser_closed(t) \/ driver_stopped(t)

Returned(t, m) == task[t].pc = "done" /\ task[t].op = m
Succeeded(t) == Returned(t, "get") /\ task[t].exc = "none"
OthersIdle(t) == \A u \in Tasks \ {t} : task[u].pc = "idle"
NoneStored == playwright = None /\ playwright_browser = None

\* C1: as long as no handle has been closed (and close() is not kept from
\* closing), get_playwright_browser() calls, concurrent ones included, create
\* one handle in all, and every caller that has returned got that handle.
C1_SingleFlight ==
    (~config.force_keep_browser_alive /\ \A h \in Ids : closeCount[h] = 0)
    => /\ nHandles <= 1
       /\ \A t, u \in Tasks :
            Succeeded(t) /\ Succeeded(u) => task[t].ret = task[u].ret

\* C2: whatever fields are set, a call enters no strategy but the one of
\* highest precedence (cdp_url > wss_url > chrome_instance_path > standard
\* launch), and a call that is inside a strategy has entered exactly that one.
C2_Precedence ==
    \A t \in Tasks :
        /\ config.cdp_url => task[t].ran \subseteq {"cdp"}
        /\ ~config.cdp_url /\ config.wss_url => task[t].ran \subseteq {"wss"}
        /\ ~config.cdp_url /\ ~config.wss_url /\ config.chrome_instance_path
              => task[t].ran \subseteq {"instance"}
        /\ ~config.cdp_url /\ ~config.wss_url /\ ~config.chrome_instance_path
              => task[t].ran \subseteq {"standard"}
        /\ task[t].pc \in AttachPcs \cup {"probed0", "spawn", "poll", "probed",
                                          "sleep", "final_attach"}
              => Cardinality(task[t].ran) = 1
        /\ task[t].attaches <= 1

\* C2 witness: all three fields set, and a call is attaching over CDP, the
\* only strategy it has entered.
C2_Witness ==
    /\ config.cdp_url /\ config.wss_url /\ config.chrome_instance_path
    /\ \E t \in Tasks : task[t].pc = "attach_cdp" /\ task[t].ran = {"cdp"}

\* C3: a get_playwright_browser() call made while a handle is stored returns
\* that handle at once and changes nothing: no driver is started, no handle
\* created, nothing closed or stopped, both attributes as they were.
C3_ConnectedReturnsStored ==
    [][\A t \in Tasks :
          (playwright_browser > None /\ get_playwright_browser(t))
          => /\ task'[t] = Return(Call("get"), playwright_browser)
             /\ UNCHANGED <<playwright, playwright_browser, nDrivers, nHandles,
                            closeCount, stopCount>>]_vars

\* C3 witness: one driver and one handle exist, the handle is stored, and two
\* calls have returned it (so one of them found it stored).
C3_Witness ==
    /\ nDrivers = 1 /\ nHandles = 1 /\ playwright_browser = 1
    /\ \A h \in Ids : closeCount[h] = 0
    /\ \A t \in Tasks : Succeeded(t) /\ task[t].ret = playwright_browser

\* C4: a step that ends get_playwright_browser() with an exception raised
\* inside _init leaves both attributes as they were, and None when no other
\* task has used the Browser; a call made while no handle is stored starts
\* _init afresh.
C4_FailureStoresNothing ==
    [][\A t \in Tasks :
          /\ (task'[t].pc = "done" /\ task'[t].exc # "none" /\ InitStep(t))
             => /\ task'[t].ret = None
                /\ UNCHANGED <<playwright, playwright_browser>>
                /\ OthersIdle(t) => NoneStored'
          /\ (playwright_browser = None /\ get_playwright_browser(t))
             => task'[t] = [Call("get") EXCEPT !.pc = "init_start"]]_vars

\* C4 witness: a single task has started two drivers and holds the only
\* handle ever created: the strategy of its first call failed, and the retry
\* succeeded.
C4_Witness ==
    \E t \in Tasks :
        /\ OthersIdle(t) /\ Succeeded(t)
        /\ nDrivers = 2 /\ nHandles = 1
        /\ playwright_browser = 1 /\ task[t].ret = 1

\* C5: every step that ends close() leaves both attributes None, and a
\* close() call made while both are None returns at once, raises nothing and
\* invokes neither the browser's close nor the driver's stop.
C5_CloseIdempotent ==
    [][\A t \in Tasks :
          /\ (task'[t].pc = "done" /\ task'[t].op = "close" /\ CloseStep(t))
             => NoneStored'
          /\ (NoneStored /\ close(t))
             => /\ task'[t] = Return(Call("close"), None)
                /\ NoneStored'
                /\ UNCHANGED <<closeCount, stopCount>>]_vars

\* C5 witness: every task has returned from close(), and the one handle was
\* closed once and its driver stopped once.
C5_Witness ==
    /\ ~config.force_keep_browser_alive /\ NoneStored
    /\ nHandles = 1 /\ closeCount[1] = 1 /\ stopCount[1] = 1
    /\ \A t \in Tasks : Returned(t, "close") /\ task[t].exc = "none"

\* C6: whatever the browser's close and the driver's stop do, close() moves
\* on from each await as soon as the awaited call is over, and the step that
\* ends it raises nothing and leaves both attributes None.
C6_CloseNeverRaises ==
    /\ [](\A t \in Tasks :
            task[t].pc \in {"closing_browser", "stopping_driver"} /\ CanRun(t)
            => ENABLED CloseStep(t))
    /\ [][\A t \in Tasks :
            (task'[t].op = "close" /\ CloseStep(t))
            => /\ task[t].pc = "closing_browser"
                  => task'[t].pc \in {"stopping_driver", "done"}
               /\ task[t].pc = "stopping_driver" => task'[t].pc = "done"
               /\ task'[t].pc = "done"
                  => task'[t] = Return(Call("close"), None) /\ NoneStored']_vars

\* C6 witness: a single task connected and closed; the browser's close was
\* invoked and the driver's stop never was (the close raised), close() has
\* returned without an exception and both attributes are None.
C6_Witness ==
    \E t \in Tasks :
        /\ OthersIdle(t) /\ Returned(t, "close") /\ task[t].exc = "none"
        /\ ~config.force_keep_browser_alive /\ NoneStored
        /\ nHandles = 1 /\ closeCount[1] = 1 /\ stopCount[1] = 0

\* C7: with _force_keep_browser_alive set, close() is one step that invokes
\* neither the browser's close nor the driver's stop, in any state, and
\* leaves both attributes None.
C7_KeepAlive ==
    [][\A t \in Tasks :
          (config.force_keep_browser_alive /\ CloseStep(t))
          => /\ task'[t] = Return(Call("close"), None)
             /\ NoneStored'
             /\ \A h \in Ids : closeCount'[h] = 0 /\ stopCount'[h] = 0]_vars

\* C7 witness: with the flag set a handle was created, close() has returned,
\* both attributes are None and nothing was closed or stopped.
C7_Witness ==
    \E t \in Tasks :
        /\ config.force_keep_browser_alive /\ OthersIdle(t)
        /\ Returned(t, "close") /\ NoneStored /\ nHandles = 1
        /\ \A h \in Ids : closeCount[h] = 0 /\ stopCount[h] = 0

\* C8: a close() call that found both a handle and a driver stored (flag
\* unset) has invoked the browser's close and the driver's stop by the time
\* it ends.
C8_ReleasesBoth ==
    [][\A t \in Tasks :
          (/\ task[t].pc \in {"closing_browser", "stopping_driver"}
           /\ task[t].held
           /\ task'[t].pc = "done"
           /\ CloseStep(t))
          => task[t].closes = 1 /\ task[t].stops = 1]_vars

\* C9: in _setup_browser_with_instance, once the initial probe has reported
\* the endpoint reachable, the call spawns nothing and polls nothing, makes
\* exactly one attach and ends with that attach's result; a process is
\* spawned at most once, and only after an initial probe that did not report
\* the endpoint reachable.
C9_ReuseWithoutSpawn ==
    /\ [](\A t \in Tasks :
            /\ task[t].probe0 = "reachable"
               => /\ task[t].spawns = 0 /\ task[t].polls = 0
                  /\ task[t].sleeps = 0
                  /\ \/ task[t].pc = "probed0" /\ task[t].attaches = 0
                     \/ task[t].pc = "attach_reuse" /\ task[t].attaches = 1
            /\ task[t].spawns <= 1
            /\ task[t].spawns = 1 => task[t].probe0 = "unreachable")
    /\ [][\A t \in Tasks :
            (task[t].probe0 = "reachable" /\ InitStep(t))
            => \/ task'[t].pc = "attach_reuse"
               \/ /\ task[t].pc = "attach_reuse"
                  /\ \/ /\ task'[t] = Return(Call("get"), nHandles')
                        /\ nHandles' = nHandles + 1
                        /\ playwright_browser' = nHandles'
                     \/ /\ task'[t] = Raise(Call("get"), "AttachError")
                        /\ nHandles' = nHandles]_vars

\* C9 witness: the initial probe found the endpoint reachable and the call is
\* attaching to it, having spawned and polled nothing.
C9_Witness ==
    \E t \in Tasks :
        /\ task[t].pc = "attach_reuse" /\ task[t].probe0 = "reachable"
        /\ task[t].spawns = 0 /\ task[t].polls = 0 /\ task[t].attaches = 1

\* C10: when the initial probe did not report the endpoint reachable and the
\* endpoint first answers 200 on poll attempt k, the process was spawned once
\* and before the first poll, polling stops at k probes with a sleep after
\* each of the k-1 failed ones, and one attach follows, whose handle is the
\* one stored and returned.
C10_PollUntilReachable ==
    /\ [](\A t \in Tasks :
            /\ task[t].polls > 0 => task[t].spawns = 1
            /\ task[t].okAt > 0
               => /\ task[t].okAt \in 1..MaxPollAttempts
                  /\ task[t].probe0 = "unreachable"
                  /\ task[t].spawns = 1
                  /\ task[t].polls = task[t].okAt
                  /\ task[t].sleeps = task[t].okAt - 1
                  /\ task[t].attaches = 0
                  /\ task[t].pc \in {"probed", "final_attach"})
    /\ [][\A t \in Tasks :
            /\ (task[t].okAt > 0 /\ InitStep(t))
               => \/ task'[t].pc = "final_attach" /\ task'[t].okAt = task[t].okAt
                  \/ task'[t].pc = "attach_final" /\ task'[t].attaches = 1
            /\ (task[t].pc = "attach_final" /\ InitStep(t))
               => \/ /\ task'[t] = Return(Call("get"), nHandles')
                     /\ nHandles' = nHandles + 1
                     /\ playwright_browser' = nHandles'
                  \/ /\ task'[t] = Raise(Call("get"), "RuntimeError")
                     /\ nHandles' = nHandles]_vars

\* C10 witness: the endpoint first answered 200 on the fourth poll; the call
\* has spawned once, probed four times, slept three times and is about to
\* make its attach.
C10_Witness ==
    \E t \in Tasks :
        /\ task[t].pc = "final_attach" /\ task[t].okAt = 4
        /\ task[t].spawns = 1 /\ task[t].polls = 4 /\ task[t].sleeps = 3
        /\ task[t].probe0 = "unreachable"

\* C11: in _setup_browser_with_instance the poll loop never makes more than
\* MaxPollAttempts probes and is left without a reachable answer only after
\* exactly that many; a call that has not seen the endpoint reachable (and
\* has started the process) ends in no way other than with the RuntimeError
\* raised after the final attach.
C11_UnreachableEndsFatal ==
    /\ [](\A t \in Tasks :
            /\ task[t].polls <= MaxPollAttempts
            /\ (task[t].pc = "final_attach" /\ task[t].okAt = 0)
               => task[t].polls = MaxPollAttempts)
    /\ [][\A t \in Tasks :
            (/\ task[t].pc \in {"probed0", "probed", "attach_final"}
             /\ task'[t].pc = "done"
             /\ task'[t].exc # "none"
             /\ task[t].probe0 = "unreachable"
             /\ task[t].okAt = 0)
            => /\ task[t].pc = "attach_final"
               /\ task'[t].exc = "RuntimeError"]_vars

\* C12: a probe that ended in a connection failure, a timeout or a status
\* other than 200 never ends the call: after the initial probe the call goes
\* on to spawn, after a poll probe to the sleep before the next attempt (or
\* before the final attach).
C12_ProbeFailureIsUnreachable ==
    [][\A t \in Tasks :
          /\ (/\ task[t].pc = "probed0"
              /\ ~ProbeReachable(task[t].lastProbe)
              /\ InitStep(t))
             => task'[t].pc = "spawn"
          /\ (/\ task[t].pc = "probed"
              /\ ~ProbeReachable(task[t].lastProbe)
              /\ InitStep(t))
             => task'[t].pc = "sleep"]_vars

\* C13: with cdp_url or wss_url set, a call probes nothing, spawns nothing
\* and sleeps nothing, goes from _setup_cdp / _setup_wss straight to its one
\* attach, and ends with that attach's result: the new handle, or the attach's
\* error raised to the caller of get_playwright_browser() with nothing tried
\* after it.
C13_DirectAttachOnce ==
    /\ [](\A t \in Tasks :
            (config.cdp_url \/ config.wss_url)
            => /\ task[t].probe0 = "none" /\ task[t].lastProbe = "none"
               /\ task[t].spawns = 0 /\ task[t].polls = 0
               /\ task[t].sleeps = 0 /\ task[t].attaches <= 1
               /\ task[t].pc \in InitPcs
                  => task[t].pc \in {"init_start", "setup_browser", "setup_cdp",
                                     "setup_wss", "attach_cdp", "attach_wss"}
               /\ task[t].pc \in {"attach_cdp", "attach_wss"}
                  => task[t].attaches = 1)
    /\ [][\A t \in Tasks :
            /\ (task[t].pc = "setup_cdp" /\ InitStep(t))
               => task'[t].pc = "attach_cdp"
            /\ (task[t].pc = "setup_wss" /\ InitStep(t))
               => task'[t].pc = "attach_wss"
            /\ (task[t].pc \in {"attach_cdp", "attach_wss"} /\ InitStep(t))
               => \/ /\ task'[t] = Return(Call("get"), nHandles')
                     /\ nHandles' = nHandles + 1
                  \/ /\ task'[t] = Raise(Call("get"), "AttachError")
                     /\ UNCHANGED shared]_vars

\* C13 witness: with cdp_url set, a single call started a driver, its attach
\* failed and the error reached the caller; no handle exists.
C13_Witness ==
    \E t \in Tasks :
        /\ config.cdp_url /\ OthersIdle(t)
        /\ Returned(t, "get") /\ task[t].exc = "AttachError"
        /\ nDrivers = 1 /\ nHandles = 0 /\ NoneStored

\* C14: once a close() has returned and no handle is stored, a
\* get_playwright_browser() call starts _init exactly as a call on a new
\* Browser does, and a strategy that succeeds creates a new handle, never
\* closed before, which is the one stored and returned.
C14_ReconnectAfterClose ==
    [][\A t \in Tasks :
          /\ (/\ playwright_browser = None
              /\ \E u \in Tasks : Returned(u, "close")
              /\ get_playwright_browser(t))
             => /\ task'[t] = [Call("get") EXCEPT !.pc = "init_start"]
                /\ UNCHANGED shared
          /\ (/\ task[t].pc \in AttachPcs
              /\ task'[t].pc = "done"
              /\ task'[t].exc = "none")
             => /\ nHandles' = nHandles + 1
                /\ closeCount[nHandles'] = 0
                /\ playwright_browser' = nHandles'
                /\ playwright' = nHandles'
                /\ task'[t].ret = nHandles']_vars

\* C14 witness: a single task connected, closed (the first handle closed and
\* its driver stopped) and connected again: the second handle is stored and
\* was returned.
C14_Witness ==
    \E t \in Tasks :
        /\ OthersIdle(t) /\ Succeeded(t) /\ task[t].ret = 2
        /\ nHandles = 2 /\ playwright_browser = 2 /\ playwright = 2
        /\ closeCount[1] = 1 /\ stopCount[1] = 1 /\ closeCount[2] = 0

\* C15: __del__ run while a handle or a driver is stored raises nothing and
\* initiates close: with an event loop running it leaves a close() task
\* scheduled and touches nothing itself; with no loop running it has run
\* close() to its end, so both attributes are None when it returns.
C15_FinalizerInitiatesClose ==
    [][\A t \in Tasks :
          ((playwright_browser > None \/ playwright > None) /\ __del__(t))
          => /\ task'[t].exc = "none"
             /\ task'[t].loop = "running"
                => task'[t].pc = "scheduled" /\ UNCHANGED shared
             /\ task'[t].loop = "absent"
                => task'[t].pc = "done" /\ NoneStored']_vars

\* C16: with _force_keep_browser_alive unset, whatever close() calls overlap,
\* the close of no handle and the stop of no driver is invoked more than
\* once.
C16_ReleasedOnce ==
    ~config.force_keep_browser_alive
    => \A h \in Ids : closeCount[h] <= 1 /\ stopCount[h] <= 1

\* C17: the step in which get_playwright_browser() returns a handle returns
\* one whose close has not been invoked.
C17_NeverReturnsClosing ==
    [][\A t \in Tasks :
          (/\ task'[t].pc = "done"
           /\ task'[t].op = "get"
           /\ task'[t].ret > None
           /\ task'[t] # task[t])
          => closeCount'[task'[t].ret] = 0]_vars

\* C18: a get_playwright_browser() call that started a driver ends with that
\* driver stored in self.playwright (nobody else can have stopped it: until
\* then only the call's local variable refers to it).
C18_NoLeakedDriver ==
    [][\A t \in Tasks :
          (/\ task[t].playwright = Started
           /\ task'[t].pc = "done")
          => /\ playwright' > None
             /\ playwright' = task'[t].ret]_vars

\* C19: neither attribute is ever without a value, and no
\* get_playwright_browser() call ends with an AttributeError.
C19_AttributesDefined ==
    /\ playwright_browser # Deleted
    /\ playwright # Deleted
    /\ \A t \in Tasks : task[t].exc # "AttributeError"

\* C20: whenever the handle attribute holds a handle, the driver attribute
\* holds the driver that handle was created on; the only step inside _init
\* that writes the attributes is the one that ends a successful strategy,
\* and it writes the two together.
C20_HandleWithDriver ==
    /\ [](playwright_browser > None => playwright = playwright_browser)
    /\ [][\A t \in Tasks :
            InitStep(t)
            => \/ UNCHANGED <<playwright, playwright_browser>>
               \/ /\ task[t].pc \in AttachPcs
                  /\ task'[t] = Return(Call("get"), nHandles')
                  /\ nHandles' = nHandles + 1
                  /\ playwright_browser' = nHandles'
                  /\ playwright' = nHandles']_vars

\* C20 witness: a close() has deleted the handle attribute and is waiting
\* for the driver to stop when a concurrent call's strategy succeeds: _init
\* stores the second handle together with its driver.
C20_Witness ==
    /\ playwright_browser = 2 /\ playwright = 2 /\ nHandles = 2
    /\ \E t, u \in Tasks :
         /\ task[t].pc = "stopping_driver"
         /\ Succeeded(u) /\ task[u].ret = 2

====
